---- MODULE Spec2Model ----
(***************************************************************************)
(* ImageAnalysisCache of src/scripts/image_cache.py as a state machine.    *)
(*                                                                         *)
(* One cache instance lives in one process and owns the in-memory mapping  *)
(* (cache) and the counters (stats); the persisted JSON file (disk) and    *)
(* the wall clock (now) are its environment.  A call of get, set, save,    *)
(* clear_old_entries, clear_by_query, clear_all, get_stats or              *)
(* get_queries_analyzed is one action, and so is the construction of a new *)
(* instance from the file.  The image files (fs) and the way writes of the *)
(* persisted file end (fault) are fixed per behaviour and chosen in Init.  *)
(*                                                                         *)
(* Spec takes a bounded number of steps over all the actions; SpecSession  *)
(* is a longer run of get, set and get_stats calls on one instance;        *)
(* SpecShared lets two processes, each with its own instance, take turns   *)
(* on one file; SpecOnAnyFile starts the instance on any JSON file, also   *)
(* one whose value is not a mapping.                                       *)
(*                                                                         *)
(* Two more components of the repository are modelled next to the cache:   *)
(* expand_query_with_cache of src/query_expander.py (SpecExpander: calls   *)
(* on the query cache file) and the generator stream_generate_post of      *)
(* src/run.py (SpecStream: one request, iterated to its end).              *)
(*                                                                         *)
(* Modelling conventions:                                                  *)
(*  - a file's content is a sequence of 1 MiB blocks (the last block may   *)
(*    be shorter); f.read(1024 * 1024) returns the first ReadLimit = 1     *)
(*    blocks;                                                              *)
(*  - strings the code builds (hex digests, cache keys) are sequences of   *)
(*    one-character strings, so endswith / split are computed on them;     *)
(*  - md5 is a deterministic map from block sequences to a fixed-width hex *)
(*    digest, injective on the inputs enumerated here (a digest collision  *)
(*    is not modelled); the width is DigestLen hex characters;             *)
(*  - time is counted in whole days since datetime.min.                    *)
(***************************************************************************)
EXTENDS Integers, Sequences, FiniteSets, TLC

VARIABLES
    cache,      \* self.cache: the in-memory mapping key -> entry
    stats,      \* self.stats: hits / misses / total_queries
    disk,       \* the persisted file self.cache_file
    now,        \* datetime.now(), in days since datetime.min
    fs,         \* the image files: what open(path, 'rb') finds at each path
    fault,      \* how a write of the persisted file ends in this behaviour
    last,       \* the step that ran last: the call, its arguments and result
    steps,      \* history: the number of steps taken so far
    stored,     \* history: what set() stored, by (image identity, query)
    preloaded,  \* history: the keys _load_cache put in the mapping
    lookups,    \* history: the get calls made on the instance
    running,    \* two processes on one file: the process that runs
    peer,       \* two processes on one file: the instance of the other one
    written,    \* history: the keys each process has written to the file
    cacheValue, \* the type and len() of self.cache; a dict is held in cache
    qcache,     \* query_cache.json, the file of expand_query_with_cache
    settled,    \* history: the expansions returned and written, by query key
    tokens,     \* stream_generate_post: the words of the generated post
    schedule,   \* stream_generate_post: the schedule argument
    position,   \* stream_generate_post: the loop variable i
    chunks,     \* history: the chunks the generator has yielded
    pc          \* stream_generate_post: where the generator is suspended

vars == <<cache, stats, disk, now, fs, fault, last, steps, stored, preloaded,
          lookups, running, peer, written, cacheValue, qcache, settled,
          tokens, schedule, position, chunks, pc>>

----------------------------------------------------------------------------
(* Bounds of the model *)

MaxSteps == 4       \* a behaviour takes at most this many steps
MaxDays == 2        \* clear_old_entries(days) is called with days in 0..MaxDays
StartTime == 1      \* the clock value when the model starts
MaxCalls == 6       \* the calls of a session of lookups
MaxShared == 5      \* the steps of two processes that share the file
MaxOnAnyFile == 3   \* the steps of a process started on any JSON file
MaxExpansions == 4  \* the calls of expand_query_with_cache

----------------------------------------------------------------------------
(* Inputs *)

\* image paths: the same file name in two directories
Paths == {"a/photo1.jpg", "b/photo1.jpg"}

Queries == {"ocean scene", "mountain scene"}

\* the classifier results handed to set(): (is_match, explanation)
Verdicts == {<<TRUE, "water visible">>, <<FALSE, "no water">>}

\* what open(image_path, 'rb') finds: an unreadable file, or a readable one
\* whose content is a sequence of 1 MiB blocks
Unreadable == [readable |-> FALSE, blocks |-> <<>>]

Readable(b) == [readable |-> TRUE, blocks |-> b]

Images ==
    {Unreadable} \cup
    {Readable(b) : b \in {<<0, 0>>, <<0, 1>>, <<1>>}}

\* the directory contents a behaviour can run on: two images that differ
\* after the first MiB only, two that differ within it, the same image
\* twice, and two unreadable files
FileSystems ==
    {[p \in Paths |-> IF p = "a/photo1.jpg" THEN Readable(<<0, 0>>) ELSE img] :
        img \in {Readable(<<0, 1>>), Readable(<<1>>), Readable(<<0, 0>>)}}
    \cup {[p \in Paths |-> Unreadable]}

\* the values of a JSON request body: a string, held as the sequence of its
\* words and white-space characters, and null
Str(text) == [type |-> "str", text |-> text]
NoneValue == [type |-> "NoneType"]

\* outcomes of writing the persisted file in _save_cache
WriteOutcomes == {"written", "open_failed", "partial_write"}

----------------------------------------------------------------------------
(* Fingerprints and keys *)

ReadLimit == 1      \* f.read(1024 * 1024): one block of 1 MiB

DigestLen == 2      \* hex characters of a digest

DatetimeMin == 0    \* datetime.min, the smallest representable datetime

Min(a, b) == IF a < b THEN a ELSE b

HexChars == <<"0", "1", "2", "3", "4", "5", "6", "7",
              "8", "9", "a", "b", "c", "d", "e", "f">>

\* an encoding of the file name that leaves the directory out
EncodeBaseName(s) ==
    CASE s = "a/photo1.jpg" -> <<2>>
      [] s = "b/photo1.jpg" -> <<2>>
      [] s = "ocean scene" -> <<2, 2>>
      [] s = "mountain scene" -> <<3, 3>>

\* str.encode(): the bytes of the strings used here, as blocks distinct from
\* the image blocks 0 and 1
Encode(s) ==
    CASE s = "a/photo1.jpg" -> <<2>>
      [] s = "b/photo1.jpg" -> <<3>>
      [] s = "ocean scene" -> <<2, 2>>
      [] s = "mountain scene" -> <<3, 3>>

\* the number a block sequence stands for (bijective base-5 numeration)
RECURSIVE Code(_)
Code(b) == IF b = <<>> THEN 0 ELSE (Head(b) + 1) + 5 * Code(Tail(b))

RECURSIVE HexOf(_, _)
HexOf(n, width) ==
    IF width = 0 THEN <<>>
    ELSE Append(HexOf(n \div 16, width - 1), HexChars[(n % 16) + 1])

\* hashlib.md5(data).hexdigest()
Md5Hex(data) == HexOf(Code(data) % (16 ^ DigestLen), DigestLen)

\* a read that ignores the limit
ReadWholeFile(image, n) == image.blocks

\* f.read(n) on a readable file
Read(image, n) == SubSeq(image.blocks, 1, Min(Len(image.blocks), n))

\* a fingerprint taken from the path whatever the file holds
GetImageHashOfPath(path, image) == Md5Hex(Encode(path))

GetImageHash(path, image) ==
    IF image.readable
    THEN Md5Hex(Read(image, ReadLimit))
    ELSE Md5Hex(Encode(path))

GetQueryHash(query) == Md5Hex(Encode(query))

\* a key that leaves the query out
GetCacheKeyOfImage(path, image, query) ==
    GetImageHash(path, image) \o <<":">>

GetCacheKey(path, image, query) ==
    GetImageHash(path, image) \o <<":">> \o GetQueryHash(query)

\* str.startswith, written where endswith was meant
StartsWith(s, suffix) ==
    /\ Len(suffix) <= Len(s)
    /\ SubSeq(s, 1, Len(suffix)) = suffix

\* str.endswith
EndsWith(s, suffix) ==
    /\ Len(suffix) <= Len(s)
    /\ SubSeq(s, Len(s) - Len(suffix) + 1, Len(s)) = suffix

----------------------------------------------------------------------------
(* Timestamps *)

\* datetime.isoformat(): the text of a datetime
IsoFormat(t) == [text |-> "iso", at |-> t]

\* a timestamp text datetime.fromisoformat rejects
Garbage == [text |-> "garbage", at |-> 0]

\* datetime.fromisoformat(value["timestamp"]) succeeds
Parses(value) == "timestamp" \in DOMAIN value /\ value.timestamp.text = "iso"

FromIsoFormat(ts) == ts.at

----------------------------------------------------------------------------
(* The persisted file *)

\* names of the top-level fields of the persisted JSON object
CacheField == <<"c", "a", "c", "h", "e">>

MetadataField == <<"m", "e", "t", "a", "d", "a", "t", "a">>

EmptyDict == [k \in {} |-> TRUE]

\* the dict with the items of f whose keys are in S
Restrict(f, S) == [k \in S |-> f[k]]

\* self.cache_file does not exist
Absent == [kind |-> "absent"]

\* the file exists and json.load raises on it (cut short, not JSON)
Corrupt == [kind |-> "corrupt"]

\* the file exists and open(self.cache_file, 'r') raises on it
Locked == [kind |-> "unreadable"]

\* self.cache as a dict (its items are in the variable cache)
DictValue == [type |-> "dict", len |-> 0]

\* the file holds the JSON text of a dict from which _load_cache returns a
\* dict
JsonDict(data) ==
    [kind |-> "json", type |-> "dict", holds |-> DictValue, data |-> data]

\* json.dump writes a Python value by its type: a bool as the literal true
\* or false, a str as a JSON string
JsonBool(b) == [json |-> "literal", text |-> IF b THEN "true" ELSE "false"]

JsonString(s) == [json |-> "string", text |-> s]

\* the JSON object of an entry; is_match is the bool of an entry, every
\* other field is a str
DumpEntry(entry) ==
    [f \in DOMAIN entry |->
        IF f = "is_match" THEN JsonBool(entry[f]) ELSE JsonString(entry[f])]

DumpMapping(mapping) == [k \in DOMAIN mapping |-> DumpEntry(mapping[k])]

\* the metadata block as JSON: a string, a number and an object of numbers
DumpMetadata(metadata) ==
    [last_updated |-> JsonString(metadata.last_updated),
     total_entries |-> metadata.total_entries,
     stats |-> metadata.stats]

\* json.dump(data, f, indent=2) of the dict _save_cache builds
JsonDump(data) ==
    [f \in DOMAIN data |->
        IF f = CacheField THEN DumpMapping(data[f]) ELSE DumpMetadata(data[f])]

\* json.load reads a literal as a bool and a JSON string as a str
LoadValue(v) == IF v.json = "literal" THEN v.text = "true" ELSE v.text

LoadEntry(object) == [f \in DOMAIN object |-> LoadValue(object[f])]

LoadMapping(object) == [k \in DOMAIN object |-> LoadEntry(object[k])]

\* the dict _save_cache dumps
SavedData(mapping) ==
    [f \in {CacheField, MetadataField} |->
        IF f = CacheField
        THEN mapping
        ELSE [last_updated |-> IsoFormat(now),
              total_entries |-> Cardinality(DOMAIN mapping),
              stats |-> stats]]

\* a save that dumps the entries loaded from the file and leaves out the
\* entries set since
SaveCacheLoaded(mapping, outcome) ==
    CASE outcome = "written" ->
            JsonDict(JsonDump(SavedData(
                Restrict(mapping, DOMAIN mapping \cap preloaded))))
      [] outcome = "open_failed" -> disk
      [] outcome = "partial_write" -> Corrupt

\* the file after _save_cache with self.cache = mapping, by what happened to
\* the write: open(..., 'w') raised (the file is as before), the dump was cut
\* short after open truncated the file, or the dump completed
SaveCache(mapping, outcome) ==
    CASE outcome = "written" -> JsonDict(JsonDump(SavedData(mapping)))
      [] outcome = "open_failed" -> disk
      [] outcome = "partial_write" -> Corrupt

\* a loader that knows the bare mapping only
LoadCacheLegacyOnly(d) ==
    IF d.kind = "absent" THEN EmptyDict
    ELSE IF d.kind \in {"unreadable", "corrupt"} THEN EmptyDict
    ELSE IF d.type = "dict" /\ CacheField \in DOMAIN d.data
         THEN EmptyDict
         ELSE LoadMapping(d.data)

\* _load_cache on file content d
LoadCache(d) ==
    IF d.kind = "absent" THEN EmptyDict
    ELSE IF d.kind \in {"unreadable", "corrupt"} THEN EmptyDict
    ELSE IF d.type = "dict" /\ CacheField \in DOMAIN d.data
         THEN LoadMapping(d.data[CacheField])
         ELSE LoadMapping(d.data)

\* counters taken over from the metadata of the persisted file
StatsOfFile ==
    IF disk.kind = "json" /\ MetadataField \in DOMAIN disk.data
    THEN disk.data[MetadataField].stats
    ELSE [hits |-> 0, misses |-> 0, total_queries |-> 0]

ZeroStats == [hits |-> 0, misses |-> 0, total_queries |-> 0]

----------------------------------------------------------------------------
(* Files a process can find at start: none, a damaged or unreadable one,   *)
(* or one in the old format (the bare mapping), whose entry carries a      *)
(* timestamp of day 0 or a timestamp text that datetime.fromisoformat      *)
(* rejects.  A file in the current format comes about by a save.  Only     *)
(* files whose JSON value is a dict of entries are started from.           *)

OldKey == GetCacheKey("a/photo1.jpg", Readable(<<0>>), "ocean scene")

OldEntry(ts) ==
    [is_match |-> TRUE, explanation |-> "water visible",
     image_path |-> "a/photo1.jpg", timestamp |-> ts]

LegacyFile(ts) == JsonDict(DumpMapping([k \in {OldKey} |-> OldEntry(ts)]))

InitialFiles ==
    {Absent, Corrupt, Locked, LegacyFile(IsoFormat(0)), LegacyFile(Garbage)}

----------------------------------------------------------------------------
(* History of set(): the image identity the specification defines (the     *)
(* first 1 MiB of a readable file, the path of an unreadable one)          *)

FirstMiB(image) ==
    IF Len(image.blocks) = 0 THEN <<>> ELSE <<image.blocks[1]>>

ImageIdentity(path, image) ==
    IF image.readable
    THEN [readable |-> TRUE, content |-> FirstMiB(image), path |-> ""]
    ELSE [readable |-> FALSE, content |-> <<>>, path |-> path]

Identity(path, image, query) ==
    [image |-> ImageIdentity(path, image), query |-> query]

----------------------------------------------------------------------------
(* Results of a call *)

None == [kind |-> "None"]

\* a get that returns the wrong field of the entry as the explanation
VerdictWithPath(entry) ==
    [kind |-> "tuple", is_match |-> entry.is_match,
     explanation |-> entry.image_path]

\* the tuple get() returns for an entry
Verdict(entry) ==
    [kind |-> "tuple", is_match |-> entry.is_match,
     explanation |-> entry.explanation]

Count(n) == [kind |-> "int", value |-> n]

Raised(exc) == [kind |-> "raise", exc |-> exc]

DecChars == <<"0", "1", "2", "3", "4", "5", "6", "7", "8", "9">>

\* str(n) of a natural number
RECURSIVE Digits(_)
Digits(n) ==
    IF n < 10 THEN <<DecChars[n + 1]>>
    ELSE Append(Digits(n \div 10), DecChars[(n % 10) + 1])

\* a rate cut off after the first decimal
TenthsTruncating(hits, total) == (hits * 1000) \div total

\* hits / total * 100 in tenths, rounded as the format ".1f" rounds: to the
\* nearest tenth, a tie to the even one
Tenths(hits, total) ==
    LET q == (hits * 1000) \div total
        r == (hits * 1000) % total
    IN IF 2 * r > total \/ (2 * r = total /\ q % 2 = 1) THEN q + 1 ELSE q

\* f"{hit_rate:.1f}%"
FormatRate(tenths) ==
    Digits(tenths \div 10) \o <<".">> \o Digits(tenths % 10) \o <<"%">>

\* the hit_rate get_stats reports
HitRate(st) ==
    LET total == st.hits + st.misses IN
    IF total > 0 THEN FormatRate(Tenths(st.hits, total)) ELSE FormatRate(0)

\* _get_cache_file_size: "0 KB" without a file, else the size of the file
\* scaled to B, KB or MB (the number of bytes is not modelled)
GetCacheFileSize(d) ==
    IF d.kind = "absent" THEN "0 KB" ELSE "size of the file"

\* a split that hands the two parts back in the other order
SplitSwapped(key) ==
    LET colons == {i \in 1..Len(key) : key[i] = ":"} IN
    IF colons = {} THEN <<key>>
    ELSE LET first == CHOOSE i \in colons : \A j \in colons : i <= j IN
         <<SubSeq(key, first + 1, Len(key)), SubSeq(key, 1, first - 1)>>

\* key.split(":", 1): the parts before and after the first ":", or the key
\* alone when it has none
Split(key) ==
    LET colons == {i \in 1..Len(key) : key[i] = ":"} IN
    IF colons = {} THEN <<key>>
    ELSE LET first == CHOOSE i \in colons : \A j \in colons : i <= j IN
         <<SubSeq(key, 1, first - 1), SubSeq(key, first + 1, Len(key))>>

----------------------------------------------------------------------------
(* Processes.  Spec and SpecSession run one process; SpecShared runs two   *)
(* on the same persisted file, each with its own instance.                 *)

Processes == {"A", "B"}

OtherProcess(p) == IF p = "A" THEN "B" ELSE "A"

\* the variables of the second process
sharing == <<running, peer, written>>

\* the variables that are constant while one process runs on a file of
\* entries
single == <<running, peer, written, cacheValue>>

\* the variables of the image cache
caching == <<cache, stats, disk, now, fs, fault, stored, preloaded, lookups,
             running, peer, written, cacheValue>>

\* the variables of the query expander and of the post generator
expanding == <<qcache, settled>>
streaming == <<tokens, schedule, position, chunks, pc>>

\* no query has been expanded and no post is being generated
NoExpansion == qcache = Absent /\ settled = EmptyDict
NoStream ==
    /\ tokens = <<>>
    /\ schedule = NoneValue
    /\ position = 0
    /\ chunks = <<>>
    /\ pc = "idle"

\* the instance of a process that has just been constructed from file d
Constructed(d) ==
    [cache |-> LoadCache(d), stats |-> ZeroStats, stored |-> EmptyDict,
     preloaded |-> DOMAIN LoadCache(d), lookups |-> 0]

\* one process only
Alone ==
    /\ running = "A"
    /\ peer = [cache |-> EmptyDict, stats |-> ZeroStats, stored |-> EmptyDict,
               preloaded |-> {}, lookups |-> 0]
    /\ written = [p \in Processes |-> {}]

----------------------------------------------------------------------------
Init ==
    /\ disk \in InitialFiles
    /\ cache = LoadCache(disk)
    /\ stats = ZeroStats
    /\ now = StartTime
    /\ last = [op |-> "init"]
    /\ steps = 0
    /\ fs \in FileSystems
    /\ fault \in WriteOutcomes
    /\ stored = EmptyDict
    /\ preloaded = DOMAIN cache
    /\ lookups = 0
    /\ Alone
    /\ cacheValue = DictValue
    /\ NoExpansion
    /\ NoStream

\* a construction that keeps the mapping and the counters of the instance
\* before it
ConstructReusing ==
    /\ cache' = cache
    /\ stats' = stats
    /\ last' = [op |-> "init"]
    /\ stored' = EmptyDict
    /\ preloaded' = DOMAIN cache'
    /\ lookups' = 0
    /\ UNCHANGED <<disk, now, fs, fault>>

\* ImageAnalysisCache(): a new process constructs its instance from the file
Construct ==
    /\ cache' = LoadCache(disk)
    /\ stats' = ZeroStats
    /\ last' = [op |-> "init"]
    /\ stored' = EmptyDict
    /\ preloaded' = DOMAIN cache'
    /\ lookups' = 0
    /\ UNCHANGED <<disk, now, fs, fault>>

\* the wall clock advances between two calls
Tick ==
    /\ now' = now + 1
    /\ last' = [op |-> "tick"]
    /\ UNCHANGED <<cache, stats, disk, fs, fault, stored, preloaded, lookups>>

\* a get that refreshes the timestamp of the entry it hits
GetTouching(path, query) ==
    LET cache_key == GetCacheKey(path, fs[path], query) IN
    /\ IF cache_key \in DOMAIN cache
       THEN /\ stats' = [stats EXCEPT !.hits = @ + 1]
            /\ cache' = [cache EXCEPT ![cache_key].timestamp = IsoFormat(now)]
            /\ last' = [op |-> "get", path |-> path, query |-> query,
                        ret |-> Verdict(cache[cache_key])]
       ELSE /\ stats' = [stats EXCEPT !.misses = @ + 1]
            /\ cache' = cache
            /\ last' = [op |-> "get", path |-> path, query |-> query,
                        ret |-> None]
    /\ lookups' = lookups + 1
    /\ UNCHANGED <<disk, now, fs, fault, stored, preloaded>>

Get(path, query) ==
    LET cache_key == GetCacheKey(path, fs[path], query) IN
    /\ IF cache_key \in DOMAIN cache
       THEN /\ stats' = [stats EXCEPT !.hits = @ + 1]
            /\ last' = [op |-> "get", path |-> path, query |-> query,
                        ret |-> Verdict(cache[cache_key])]
       ELSE /\ stats' = [stats EXCEPT !.misses = @ + 1]
            /\ last' = [op |-> "get", path |-> path, query |-> query,
                        ret |-> None]
    /\ lookups' = lookups + 1
    /\ UNCHANGED <<cache, disk, now, fs, fault, stored, preloaded>>

\* the entry set() builds
NewEntry(path, is_match, explanation) ==
    [is_match |-> is_match, explanation |-> explanation,
     image_path |-> path, timestamp |-> IsoFormat(now)]

\* an assignment that rebuilds the dict from the new item alone
AssignAlone(d, key, value) == [k \in {key} |-> value]

\* d[key] = value on a dict
Assign(d, key, value) ==
    [k \in DOMAIN d \cup {key} |-> IF k = key THEN value ELSE d[k]]

\* a set that writes the file through
SetWriteThrough(path, query, is_match, explanation) ==
    LET cache_key == GetCacheKey(path, fs[path], query) IN
    /\ cache' = Assign(cache, cache_key, NewEntry(path, is_match, explanation))
    /\ disk' = SaveCache(cache', "written")
    /\ stored' = Assign(stored, Identity(path, fs[path], query),
                        [is_match |-> is_match, explanation |-> explanation,
                         path |-> path, image |-> fs[path], at |-> now])
    /\ last' = [op |-> "set", path |-> path, query |-> query,
                is_match |-> is_match, explanation |-> explanation,
                ret |-> None]
    /\ UNCHANGED <<stats, now, fs, fault, preloaded, lookups>>

Set(path, query, is_match, explanation) ==
    LET cache_key == GetCacheKey(path, fs[path], query) IN
    /\ cache' = Assign(cache, cache_key, NewEntry(path, is_match, explanation))
    /\ stored' = Assign(stored, Identity(path, fs[path], query),
                        [is_match |-> is_match, explanation |-> explanation,
                         path |-> path, image |-> fs[path], at |-> now])
    /\ last' = [op |-> "set", path |-> path, query |-> query,
                is_match |-> is_match, explanation |-> explanation,
                ret |-> None]
    /\ UNCHANGED <<stats, disk, now, fs, fault, preloaded, lookups>>

\* a save that lets the exception of a failed write out
SaveRaising ==
    /\ disk' = SaveCache(cache, fault)
    /\ last' = [op |-> "save",
                ret |-> IF fault = "written" THEN None ELSE Raised("OSError")]
    /\ UNCHANGED <<cache, stats, now, fs, fault, stored, preloaded, lookups>>

Save ==
    /\ disk' = SaveCache(cache, fault)
    /\ last' = [op |-> "save", ret |-> None]
    /\ UNCHANGED <<cache, stats, now, fs, fault, stored, preloaded, lookups>>

\* the entries clear_old_entries keeps
KeptByAge(cutoff_date) ==
    {key \in DOMAIN cache : FromIsoFormat(cache[key].timestamp) > cutoff_date}

\* a clear_old_entries that deletes the expired entries one by one and so has
\* removed some when a timestamp fails to evaluate
ClearOldEntriesPartial(days) ==
    LET cutoff_date == now - days
        bad == {key \in DOMAIN cache : ~Parses(cache[key])}
        good == DOMAIN cache \ bad
    IN
    IF cutoff_date < DatetimeMin
    THEN /\ last' = [op |-> "clear_old_entries", days |-> days,
                     saved |-> FALSE, ret |-> Raised("OverflowError")]
         /\ UNCHANGED <<cache, stats, disk, now, fs, fault, stored, preloaded, lookups>>
    ELSE IF bad # {}
    THEN /\ \E key \in bad :
                last' = [op |-> "clear_old_entries", days |-> days,
                         saved |-> FALSE,
                         ret |-> Raised(IF "timestamp" \in DOMAIN cache[key]
                                        THEN "ValueError" ELSE "KeyError")]
         /\ cache' = Restrict(cache, bad \cup
                {key \in good :
                    FromIsoFormat(cache[key].timestamp) > cutoff_date})
         /\ UNCHANGED <<stats, disk, now, fs, fault, stored, preloaded, lookups>>
    ELSE /\ cache' = Restrict(cache, KeptByAge(cutoff_date))
         /\ disk' = SaveCache(cache', fault)
         /\ last' = [op |-> "clear_old_entries", days |-> days,
                     saved |-> TRUE,
                     ret |-> Count(Cardinality(DOMAIN cache)
                                   - Cardinality(DOMAIN cache'))]
         /\ stored' = Restrict(stored,
                {id \in DOMAIN stored : stored[id].at > now - days})
         /\ UNCHANGED <<stats, now, fs, fault, preloaded, lookups>>

ClearOldEntries(days) ==
    LET cutoff_date == now - days
        bad == {key \in DOMAIN cache : ~Parses(cache[key])}
    IN
    IF cutoff_date < DatetimeMin
    THEN \* datetime.now() - timedelta(days=days) raises OverflowError
         /\ last' = [op |-> "clear_old_entries", days |-> days,
                     saved |-> FALSE, ret |-> Raised("OverflowError")]
         /\ UNCHANGED <<cache, stats, disk, now, fs, fault, stored, preloaded, lookups>>
    ELSE IF bad # {}
    THEN \* the comprehension raises before self.cache is assigned
         /\ \E key \in bad :
                last' = [op |-> "clear_old_entries", days |-> days,
                         saved |-> FALSE,
                         ret |-> Raised(IF "timestamp" \in DOMAIN cache[key]
                                        THEN "ValueError" ELSE "KeyError")]
         /\ UNCHANGED <<cache, stats, disk, now, fs, fault, stored, preloaded, lookups>>
    ELSE /\ cache' = Restrict(cache, KeptByAge(cutoff_date))
         /\ disk' = SaveCache(cache', fault)
         /\ last' = [op |-> "clear_old_entries", days |-> days,
                     saved |-> TRUE,
                     ret |-> Count(Cardinality(DOMAIN cache)
                                   - Cardinality(DOMAIN cache'))]
         /\ stored' = Restrict(stored,
                {id \in DOMAIN stored : stored[id].at > now - days})
         /\ UNCHANGED <<stats, now, fs, fault, preloaded, lookups>>

\* the entries clear_by_query keeps
KeptByQuery(query_hash) ==
    {key \in DOMAIN cache : ~EndsWith(key, <<":">> \o query_hash)}

ClearByQuery(query) ==
    /\ cache' = Restrict(cache, KeptByQuery(GetQueryHash(query)))
    /\ disk' = SaveCache(cache', fault)
    /\ last' = [op |-> "clear_by_query", query |-> query, saved |-> TRUE,
                ret |-> Count(Cardinality(DOMAIN cache)
                              - Cardinality(DOMAIN cache'))]
    /\ stored' = Restrict(stored, {id \in DOMAIN stored : id.query # query})
    /\ UNCHANGED <<stats, now, fs, fault, preloaded, lookups>>

\* a clear_all that counts the entries after it has emptied the mapping
ClearAllCountingAfter ==
    /\ cache' = EmptyDict
    /\ disk' = SaveCache(cache', fault)
    /\ last' = [op |-> "clear_all", saved |-> TRUE,
                ret |-> Count(Cardinality(DOMAIN cache'))]
    /\ stored' = EmptyDict
    /\ UNCHANGED <<stats, now, fs, fault, preloaded, lookups>>

ClearAll ==
    /\ cache' = EmptyDict
    /\ disk' = SaveCache(cache', fault)
    /\ last' = [op |-> "clear_all", saved |-> TRUE,
                ret |-> Count(Cardinality(DOMAIN cache))]
    /\ stored' = EmptyDict
    /\ UNCHANGED <<stats, now, fs, fault, preloaded, lookups>>

GetStats ==
    /\ last' = [op |-> "get_stats",
                ret |-> [kind |-> "dict",
                         total_cached_entries |-> Cardinality(DOMAIN cache),
                         cache_hits |-> stats.hits,
                         cache_misses |-> stats.misses,
                         hit_rate |-> HitRate(stats),
                         cache_file_size |-> GetCacheFileSize(disk)]]
    /\ UNCHANGED <<cache, stats, disk, now, fs, fault, stored, preloaded,
                   lookups>>

GetQueriesAnalyzed ==
    /\ last' = [op |-> "get_queries_analyzed",
                ret |-> IF \E key \in DOMAIN cache : Len(Split(key)) # 2
                        THEN Raised("ValueError")
                        ELSE [kind |-> "list",
                              items |-> {Split(key)[2] : key \in DOMAIN cache}]]
    /\ UNCHANGED <<cache, stats, disk, now, fs, fault, stored, preloaded,
                   lookups>>

\* the step count of a behaviour is bounded
Advance ==
    /\ steps < MaxSteps
    /\ steps' = steps + 1
    /\ UNCHANGED <<single, expanding, streaming>>

\* one step: a new process, the clock, or one call on the instance
Next ==
    \/ Advance /\ Construct
    \/ Advance /\ Tick
    \/ Advance /\ \E path \in Paths, query \in Queries : Get(path, query)
    \/ Advance /\ \E path \in Paths, query \in Queries, verdict \in Verdicts :
                      Set(path, query, verdict[1], verdict[2])
    \/ Advance /\ Save
    \/ Advance /\ \E days \in 0..MaxDays : ClearOldEntries(days)
    \/ Advance /\ \E query \in Queries : ClearByQuery(query)
    \/ Advance /\ ClearAll
    \/ Advance /\ GetStats
    \/ Advance /\ GetQueriesAnalyzed

Spec == Init /\ [][Next]_vars

\* the call count of a session of lookups is bounded
AdvanceSession ==
    /\ steps < MaxCalls
    /\ steps' = steps + 1
    /\ UNCHANGED <<single, expanding, streaming>>

\* a session of lookups on one instance: the caller looks an image up,
\* stores the verdict of the classifier, and asks for the statistics
NextSession ==
    \/ AdvanceSession /\ \E path \in Paths, query \in Queries : Get(path, query)
    \/ AdvanceSession /\ \E path \in Paths, query \in Queries,
                             verdict \in Verdicts :
                             Set(path, query, verdict[1], verdict[2])
    \/ AdvanceSession /\ GetStats

SpecSession == Init /\ [][NextSession]_vars

----------------------------------------------------------------------------
(* Two processes on one persisted file, without locking.  Each call of a   *)
(* process runs to its end before the other process runs.                  *)

\* both processes have constructed their instance from the file
InitShared ==
    /\ disk \in InitialFiles
    /\ cache = LoadCache(disk)
    /\ stats = ZeroStats
    /\ now = StartTime
    /\ last = [op |-> "init"]
    /\ steps = 0
    /\ fs \in FileSystems
    /\ fault \in WriteOutcomes
    /\ stored = EmptyDict
    /\ preloaded = DOMAIN cache
    /\ lookups = 0
    /\ running = "A"
    /\ peer = Constructed(disk)
    /\ written = [p \in Processes |-> {}]
    /\ cacheValue = DictValue
    /\ NoExpansion
    /\ NoStream

\* the other process runs next
Switch ==
    /\ running' = OtherProcess(running)
    /\ cache' = peer.cache
    /\ stats' = peer.stats
    /\ stored' = peer.stored
    /\ preloaded' = peer.preloaded
    /\ lookups' = peer.lookups
    /\ peer' = [cache |-> cache, stats |-> stats, stored |-> stored,
                preloaded |-> preloaded, lookups |-> lookups]
    /\ last' = [op |-> "switch"]
    /\ UNCHANGED <<disk, now, fs, fault, written>>

\* the keys a save of the running process puts in the file
Persisted(outcome) == IF outcome = "written" THEN DOMAIN cache ELSE {}

\* a save that reads the file and keeps the entries it finds there next to
\* its own
SaveMerging ==
    /\ disk' = SaveCache(
                   [k \in DOMAIN LoadCache(disk) \cup DOMAIN cache |->
                       IF k \in DOMAIN cache THEN cache[k]
                       ELSE LoadCache(disk)[k]],
                   fault)
    /\ last' = [op |-> "save", ret |-> None]
    /\ written' = [written EXCEPT ![running] = @ \cup Persisted(fault)]
    /\ UNCHANGED <<cache, stats, now, fs, fault, stored, preloaded, lookups,
                   running, peer>>

\* save() of the running process
SaveShared ==
    /\ Save
    /\ written' = [written EXCEPT ![running] = @ \cup Persisted(fault)]
    /\ UNCHANGED <<running, peer>>

AdvanceShared ==
    /\ steps < MaxShared
    /\ steps' = steps + 1
    /\ UNCHANGED <<cacheValue, expanding, streaming>>

NextShared ==
    \/ AdvanceShared /\ Switch
    \/ AdvanceShared /\ SaveShared
    \/ AdvanceShared /\ Construct /\ UNCHANGED sharing
    \/ AdvanceShared /\ UNCHANGED sharing
          /\ \E path \in Paths, query \in Queries, verdict \in Verdicts :
                 Set(path, query, verdict[1], verdict[2])

SpecShared == InitShared /\ [][NextShared]_vars

----------------------------------------------------------------------------
(* A process started on any JSON file.  json.load returns the value the    *)
(* file holds, and _load_cache returns it whatever its type: self.cache is *)
(* then a list, a str, a number or None, and each method does on it what   *)
(* Python does for that type.                                              *)

\* the values of the files [], "abc", 5 and null
NonMappings ==
    {[type |-> "list", len |-> 0], [type |-> "str", len |-> 3],
     [type |-> "int", len |-> 0], [type |-> "NoneType", len |-> 0]}

\* len(v) and (key in v) are defined for a list and a str
Sized(v) == v.type \in {"list", "str"}

\* the file holds the JSON text of v
JsonOther(v) ==
    [kind |-> "json", type |-> v.type, holds |-> v, data |-> EmptyDict]

\* the file holds {"cache": v, "metadata": {}}
WrappedOther(v) ==
    [kind |-> "json", type |-> "dict", holds |-> v,
     data |-> [f \in {CacheField, MetadataField} |-> EmptyDict]]

AnyFiles ==
    InitialFiles
        \cup {JsonOther(v) : v \in NonMappings}
        \cup {WrappedOther(v) : v \in NonMappings}

\* the type and len() of the value _load_cache returns on file content d
LoadedValue(d) == IF d.kind = "json" THEN d.holds ELSE DictValue

\* the file after _save_cache with self.cache = v, a list or a str
SaveValue(v, outcome) ==
    CASE outcome = "written" ->
            [kind |-> "json", type |-> "dict", holds |-> v,
             data |-> [JsonDump(SavedData(EmptyDict))
                          EXCEPT ![MetadataField].total_entries = v.len]]
      [] outcome = "open_failed" -> disk
      [] outcome = "partial_write" -> Corrupt

InitOnAnyFile ==
    /\ disk \in AnyFiles
    /\ cache = LoadCache(disk)
    /\ cacheValue = LoadedValue(disk)
    /\ stats = ZeroStats
    /\ now = StartTime
    /\ last = [op |-> "init"]
    /\ steps = 0
    /\ fs \in FileSystems
    /\ fault \in WriteOutcomes
    /\ stored = EmptyDict
    /\ preloaded = DOMAIN cache
    /\ lookups = 0
    /\ Alone
    /\ NoExpansion
    /\ NoStream

ConstructOnAny ==
    /\ Construct
    /\ cacheValue' = LoadedValue(disk)

\* a call that raises exc and leaves the instance and the file as they were
Raises(call, exc) ==
    /\ last' = [call EXCEPT !.ret = Raised(exc)]
    /\ UNCHANGED <<cache, stats, disk, now, fs, fault, stored, preloaded,
                   lookups, cacheValue>>

GetOnAny(path, query) ==
    IF cacheValue.type = "dict"
    THEN Get(path, query) /\ UNCHANGED cacheValue
    ELSE IF Sized(cacheValue)
    THEN \* (cache_key in self.cache) is False
         /\ stats' = [stats EXCEPT !.misses = @ + 1]
         /\ last' = [op |-> "get", path |-> path, query |-> query,
                     ret |-> None]
         /\ lookups' = lookups + 1
         /\ UNCHANGED <<cache, disk, now, fs, fault, stored, preloaded,
                        cacheValue>>
    ELSE Raises([op |-> "get", path |-> path, query |-> query, ret |-> None],
                "TypeError")

SetOnAny(path, query, is_match, explanation) ==
    IF cacheValue.type = "dict"
    THEN Set(path, query, is_match, explanation) /\ UNCHANGED cacheValue
    ELSE \* self.cache[cache_key] = ... on a list, a str, a number or None
         Raises([op |-> "set", path |-> path, query |-> query,
                 is_match |-> is_match, explanation |-> explanation,
                 ret |-> None], "TypeError")

SaveOnAny ==
    IF cacheValue.type = "dict"
    THEN Save /\ UNCHANGED cacheValue
    ELSE \* without len(self.cache) the exception is caught before the open
         /\ disk' = IF Sized(cacheValue)
                    THEN SaveValue(cacheValue, fault) ELSE disk
         /\ last' = [op |-> "save", ret |-> None]
         /\ UNCHANGED <<cache, stats, now, fs, fault, stored, preloaded,
                        lookups, cacheValue>>

ClearByQueryOnAny(query) ==
    IF cacheValue.type = "dict"
    THEN ClearByQuery(query) /\ UNCHANGED cacheValue
    ELSE \* len(self.cache) or self.cache.items() raises
         Raises([op |-> "clear_by_query", query |-> query, saved |-> FALSE,
                 ret |-> None],
                IF Sized(cacheValue) THEN "AttributeError" ELSE "TypeError")

ClearAllOnAny ==
    IF cacheValue.type = "dict"
    THEN ClearAll /\ UNCHANGED cacheValue
    ELSE IF Sized(cacheValue)
    THEN /\ cache' = EmptyDict
         /\ cacheValue' = DictValue
         /\ disk' = SaveCache(cache', fault)
         /\ last' = [op |-> "clear_all", saved |-> TRUE,
                     ret |-> Count(cacheValue.len)]
         /\ stored' = EmptyDict
         /\ UNCHANGED <<stats, now, fs, fault, preloaded, lookups>>
    ELSE Raises([op |-> "clear_all", saved |-> FALSE, ret |-> None],
                "TypeError")

GetQueriesAnalyzedOnAny ==
    IF cacheValue.type = "dict"
    THEN GetQueriesAnalyzed /\ UNCHANGED cacheValue
    ELSE \* self.cache.keys() raises
         Raises([op |-> "get_queries_analyzed", ret |-> None],
                "AttributeError")

AdvanceOnAnyFile ==
    /\ steps < MaxOnAnyFile
    /\ steps' = steps + 1
    /\ UNCHANGED <<sharing, expanding, streaming>>

NextOnAnyFile ==
    \/ AdvanceOnAnyFile /\ ConstructOnAny
    \/ AdvanceOnAnyFile /\ \E path \in Paths, query \in Queries :
                               GetOnAny(path, query)
    \/ AdvanceOnAnyFile /\ \E path \in Paths, query \in Queries,
                               verdict \in Verdicts :
                               SetOnAny(path, query, verdict[1], verdict[2])
    \/ AdvanceOnAnyFile /\ SaveOnAny
    \/ AdvanceOnAnyFile /\ \E query \in Queries : ClearByQueryOnAny(query)
    \/ AdvanceOnAnyFile /\ ClearAllOnAny
    \/ AdvanceOnAnyFile /\ GetQueriesAnalyzedOnAny

SpecOnAnyFile == InitOnAnyFile /\ [][NextOnAnyFile]_vars

\* the image cache is not in use
NoCache ==
    /\ cache = EmptyDict
    /\ stats = ZeroStats
    /\ disk = Absent
    /\ now = StartTime
    /\ fs = [p \in Paths |-> Unreadable]
    /\ fault = "written"
    /\ stored = EmptyDict
    /\ preloaded = {}
    /\ lookups = 0
    /\ Alone
    /\ cacheValue = DictValue

----------------------------------------------------------------------------
(* The query expander.  A query, a model text and an expansion are strings *)
(* held as sequences of one-character strings.                             *)

\* the queries a user types: one query in three spellings, and another
UserQueries ==
    {<<"o", "c">>, <<"O", "c">>, <<" ", "o", "c", " ">>, <<"s", "u">>}

\* "Expanded:", the prefix expand_query removes, and its length
ExpandedPrefix == <<"E", "x", "p", "a", "n", "d", "e", "d", ":">>
PrefixLen == 9

\* response.text of the model
ModelTexts ==
    {ExpandedPrefix \o <<" ", "A">>, <<"A", " ">>, <<"B">>,
     Tail(ExpandedPrefix)}

\* what client.models.generate_content does: it returns a text or raises
Responses == {[kind |-> "text", text |-> t] : t \in ModelTexts}
                 \cup {[kind |-> "raise"]}

\* str.lower on one character
LowerChar(c) ==
    CASE c = "O" -> "o"
      [] c = "E" -> "e"
      [] c = "A" -> "a"
      [] c = "B" -> "b"
      [] OTHER -> c

\* str.lower
Lower(s) == [i \in 1..Len(s) |-> LowerChar(s[i])]

Whitespace == {" ", "\n"}

RECURSIVE LStrip(_)
LStrip(s) ==
    IF s # <<>> /\ Head(s) \in Whitespace THEN LStrip(Tail(s)) ELSE s

RECURSIVE RStrip(_)
RStrip(s) ==
    IF s # <<>> /\ s[Len(s)] \in Whitespace
    THEN RStrip(SubSeq(s, 1, Len(s) - 1))
    ELSE s

\* str.strip
Strip(s) == RStrip(LStrip(s))

\* query_key = user_query.lower().strip()
QueryKey(user_query) == Strip(Lower(user_query))

\* expand_query: the text of the model without the prefix, or the query
\* itself when the call of the model raises
ExpandQuery(user_query, response) ==
    IF response.kind = "raise"
    THEN user_query
    ELSE LET expanded == Strip(response.text) IN
         IF StartsWith(Lower(expanded), Lower(ExpandedPrefix))
         THEN Strip(SubSeq(expanded, PrefixLen + 1, Len(expanded)))
         ELSE expanded

\* json.dump(cache, f, indent=2) of a dict of strings
DumpQueryCache(mapping) == [k \in DOMAIN mapping |-> JsonString(mapping[k])]

\* the dict expand_query_with_cache starts from
LoadQueryCache(d) ==
    IF d.kind = "json"
    THEN [k \in DOMAIN d.data |-> LoadValue(d.data[k])]
    ELSE EmptyDict

\* the file after the open(cache_path, 'w') and json.dump
WriteQueryCache(mapping, outcome) ==
    CASE outcome = "written" -> JsonDict(DumpQueryCache(mapping))
      [] outcome = "open_failed" -> qcache
      [] outcome = "partial_write" -> Corrupt

\* the query cache files a first call can find
QueryCacheFiles ==
    {Absent, Corrupt,
     JsonDict(DumpQueryCache([k \in {<<"s", "u">>} |-> <<"B">>]))}

InitExpander ==
    /\ qcache \in QueryCacheFiles
    /\ settled = EmptyDict
    /\ last = [op |-> "init"]
    /\ steps = 0
    /\ NoCache
    /\ NoStream

ExpandQueryWithCache(user_query, response, outcome) ==
    LET loaded == LoadQueryCache(qcache)
        query_key == QueryKey(user_query)
    IN
    IF query_key \in DOMAIN loaded
    THEN /\ last' = [op |-> "expand_query_with_cache", query |-> user_query,
                     invoked |-> FALSE, ret |-> loaded[query_key]]
         /\ UNCHANGED <<qcache, settled>>
    ELSE LET expanded == ExpandQuery(user_query, response) IN
         /\ qcache' = WriteQueryCache(Assign(loaded, query_key, expanded),
                                      outcome)
         /\ settled' = IF outcome = "written" /\ query_key \notin DOMAIN settled
                       THEN Assign(settled, query_key, expanded)
                       ELSE settled
         /\ last' = [op |-> "expand_query_with_cache", query |-> user_query,
                     invoked |-> TRUE, ret |-> expanded]

NextExpander ==
    /\ steps < MaxExpansions
    /\ steps' = steps + 1
    /\ \E user_query \in UserQueries, response \in Responses,
          outcome \in WriteOutcomes :
            ExpandQueryWithCache(user_query, response, outcome)
    /\ UNCHANGED <<caching, streaming>>

SpecExpander == InitExpander /\ [][NextExpander]_vars

----------------------------------------------------------------------------
(* The streaming post generator (src/run.py).  api_generate_stream hands  *)
(* the fields of the request body to stream_generate_post and the response *)
(* iterates the generator to its end.  A text is the sequence of its words *)
(* and white-space characters.                                             *)

ChunkSize == 6

\* data.get("draft", ""), data.get("platform", "General"),
\* data.get("tone", "casual") and data.get("schedule") of a request
Drafts ==
    {Str(<<>>), Str(<<" ">>), Str(<<"hello">>),
     Str(<<" ", "hello", " ", "world", "\n">>), NoneValue}
Platforms == {Str(<<"General">>), Str(<<"X", " ", "Twitter">>)}
Tones == {Str(<<"casual">>), Str(<<"very", " ", "casual">>), NoneValue}
Schedules ==
    {NoneValue, Str(<<>>), Str(<<"2025-11-05T14:00">>), Str(<<"tomorrow">>)}

\* str.title on one word
TitleWord(w) ==
    CASE w = "casual" -> "Casual"
      [] w = "very" -> "Very"
      [] OTHER -> w

\* str.title
Title(text) == [i \in 1..Len(text) |-> TitleWord(text[i])]

DefaultDraft ==
    <<"Share", " ", "something", " ", "interesting", " ", "about", " ",
      "your", " ", "topic.">>

\* datetime.utcnow().strftime("%Y-%m-%d %H:%M UTC")
GeneratedAt == <<"2026-11-01", " ", "18:43", " ", "UTC">>

\* generate_post: the text of the post, or the AttributeError of
\* tone.title() or draft_text.strip() on a value that is not a string
GeneratePost(draft_text, platform, tone) ==
    IF tone.type # "str" \/ draft_text.type # "str"
    THEN Raised("AttributeError")
    ELSE [kind |-> "str",
          text |-> <<"[Suzy", " ", "draft", " ", "-", " ">>
                   \o Title(tone.text) \o <<" ", "*", " ">>
                   \o platform.text \o <<"]", " ">>
                   \o (IF Strip(draft_text.text) # <<>>
                       THEN Strip(draft_text.text) ELSE DefaultDraft)
                   \o <<" ", "\n", "\n", "Suggested", " ", "hashtags:", " ",
                        "#ai", " ", "#social", " ", "#suzy", "\n",
                        "Generated", " ", "at:", " ">>
                   \o GeneratedAt]

\* str.split(): the words of a text, a word being the characters between
\* two runs of white space
RECURSIVE SplitWords(_, _)
SplitWords(text, word) ==
    LET ended == IF word = <<>> THEN <<>> ELSE <<word>> IN
    IF text = <<>>
    THEN ended
    ELSE IF Head(text) \in Whitespace
    THEN ended \o SplitWords(Tail(text), <<>>)
    ELSE SplitWords(Tail(text), Append(word, Head(text)))

StrSplit(text) == SplitWords(text, <<>>)

\* " ".join(words)
RECURSIVE Join(_)
Join(words) ==
    IF words = <<>> THEN <<>>
    ELSE IF Len(words) = 1 THEN words[1]
    ELSE words[1] \o <<" ">> \o Join(Tail(words))

\* tokens[i : i + chunk_size]
Slice(words, i) == SubSeq(words, i + 1, Min(i + ChunkSize, Len(words)))

\* chunk + (" " if not chunk.endswith("\n") else "")
Chunk(words, i) ==
    LET chunk == Join(Slice(words, i)) IN
    IF chunk # <<>> /\ chunk[Len(chunk)] = "\n" THEN chunk
    ELSE chunk \o <<" ">>

\* if schedule:
Truthy(value) == value.type = "str" /\ value.text # <<>>

\* dt.isoformat() of datetime.fromisoformat(schedule), which raises on a
\* text that is no ISO time
ScheduleIso(value) ==
    IF value.text = <<"2025-11-05T14:00">>
    THEN [kind |-> "str", text |-> "2025-11-05T14:00:00"]
    ELSE Raised("ValueError")

ScheduleNote(value) ==
    IF ScheduleIso(value).kind = "str"
    THEN <<"\n", "\n", "Scheduled", " ", "for:", " ", ScheduleIso(value).text>>
    ELSE <<"\n", "\n", "Note:", " ", "Could", " ", "not", " ", "parse", " ",
           "scheduled", " ", "time.">>

EndMarker == <<"\n", "\n", "--end--">>

InitStream ==
    /\ NoStream
    /\ last = [op |-> "init"]
    /\ steps = 0
    /\ NoCache
    /\ NoExpansion

\* the call by api_generate_stream and the code of the generator up to the
\* first test of the loop
StreamGeneratePost(draft_text, platform, tone, value) ==
    LET base == GeneratePost(draft_text, platform, tone) IN
    /\ pc = "idle"
    /\ IF base.kind = "raise"
       THEN /\ pc' = "raised"
            /\ last' = [op |-> "stream_generate_post", ret |-> base]
            /\ UNCHANGED <<tokens, schedule, position, chunks>>
       ELSE /\ tokens' = StrSplit(base.text)
            /\ schedule' = value
            /\ position' = 0
            /\ chunks' = <<>>
            /\ pc' = "loop"
            /\ last' = [op |-> "stream_generate_post", ret |-> None]

\* one turn of the loop: yield the next group of words
YieldChunk ==
    /\ pc = "loop"
    /\ position < Len(tokens)
    /\ chunks' = Append(chunks, Chunk(tokens, position))
    /\ position' = position + ChunkSize
    /\ UNCHANGED <<tokens, schedule, pc, last>>

\* after the loop: yield the scheduling note
YieldNote ==
    /\ pc = "loop"
    /\ position >= Len(tokens)
    /\ Truthy(schedule)
    /\ chunks' = Append(chunks, ScheduleNote(schedule))
    /\ pc' = "end"
    /\ UNCHANGED <<tokens, schedule, position, last>>

\* yield the final marker; the generator is exhausted
YieldEnd ==
    /\ \/ pc = "end"
       \/ pc = "loop" /\ position >= Len(tokens) /\ ~Truthy(schedule)
    /\ chunks' = Append(chunks, EndMarker)
    /\ pc' = "done"
    /\ UNCHANGED <<tokens, schedule, position, last>>

Streaming == UNCHANGED <<caching, expanding, steps>>

NextStream ==
    \/ Streaming /\ \E draft_text \in Drafts, platform \in Platforms,
                       tone \in Tones, value \in Schedules :
                       StreamGeneratePost(draft_text, platform, tone, value)
    \/ Streaming /\ YieldChunk
    \/ Streaming /\ YieldNote
    \/ Streaming /\ YieldEnd

\* the response iterates the generator until it is exhausted
SpecStream == InitStream /\ [][NextStream]_vars /\ WF_vars(NextStream)

----------------------------------------------------------------------------
(* Properties *)

\* the key and the identity the last get / set was about
LastKey == GetCacheKey(last.path, fs[last.path], last.query)

LastIdentity == Identity(last.path, fs[last.path], last.query)

StoredVerdict(id) ==
    [kind |-> "tuple", is_match |-> stored[id].is_match,
     explanation |-> stored[id].explanation]

Size(d) == Cardinality(DOMAIN d)

\* C1: a get of an image and query whose verdict was stored by set, with no
\* later set on that image identity and query and no clear that removed the
\* entry since, returns exactly the (is_match, explanation) stored.
C1_SetThenGet ==
    (last.op = "get" /\ LastIdentity \in DOMAIN stored)
        => last.ret = StoredVerdict(LastIdentity)

\* a get returns a stored FALSE verdict while a second entry has been set
\* under another key in between
C1_Witness ==
    /\ last.op = "get"
    /\ LastIdentity \in DOMAIN stored
    /\ last.ret = StoredVerdict(LastIdentity)
    /\ ~last.ret.is_match
    /\ fs[last.path].readable
    /\ Size(stored) = 2

\* C2: get changes nothing but the counters: on a present key hits grows by
\* one, misses stays and the stored verdict is returned; on an absent key
\* misses grows by one, hits stays and None is returned; the mapping and
\* the persisted file are as before.
C2_GetIsPureRead ==
    [][last'.op = "get" =>
        LET key == GetCacheKey(last'.path, fs[last'.path], last'.query) IN
        /\ cache' = cache
        /\ disk' = disk
        /\ stats'.total_queries = stats.total_queries
        /\ IF key \in DOMAIN cache
           THEN /\ stats'.hits = stats.hits + 1
                /\ stats'.misses = stats.misses
                /\ last'.ret = Verdict(cache[key])
           ELSE /\ stats'.misses = stats.misses + 1
                /\ stats'.hits = stats.hits
                /\ last'.ret = None]_vars

\* a hit and a miss have both been counted on a non-empty mapping
C2_Witness ==
    /\ last.op = "get"
    /\ stats.hits = 1
    /\ stats.misses = 1
    /\ Size(cache) > 0

\* C3: set writes neither the persisted file nor the counters, so the
\* mapping a new instance would load from the file is what it was before.
C3_SetDoesNotPersist ==
    [][last'.op = "set" =>
        /\ disk' = disk
        /\ stats' = stats
        /\ LoadCache(disk') = LoadCache(disk)]_vars

\* after two sets in a row the file exists and a new instance would not
\* see the entry set last
C3_Witness ==
    /\ last.op = "set"
    /\ Size(stored) = 2
    /\ disk.kind = "json"
    /\ LastKey \notin DOMAIN LoadCache(disk)

\* C4: set inserts or overwrites exactly one entry: the entry under the
\* composite key carries the verdict, the explanation, the path and the
\* current time; every other entry is as before; the size grows by one if
\* the key was absent and not at all if it was present.
C4_SetOneEntry ==
    [][last'.op = "set" =>
        LET key == GetImageHash(last'.path, fs[last'.path])
                       \o <<":">> \o GetQueryHash(last'.query)
        IN
        /\ key \in DOMAIN cache'
        /\ cache'[key].is_match = last'.is_match
        /\ cache'[key].explanation = last'.explanation
        /\ cache'[key].image_path = last'.path
        /\ Parses(cache'[key])
        /\ FromIsoFormat(cache'[key].timestamp) = now
        /\ DOMAIN cache'[key] =
               {"is_match", "explanation", "image_path", "timestamp"}
        /\ DOMAIN cache' = DOMAIN cache \cup {key}
        /\ \A k \in DOMAIN cache : k # key => cache'[k] = cache[k]
        /\ Size(cache') = Size(cache) + (IF key \in DOMAIN cache THEN 0 ELSE 1)]_vars

\* a set has overwritten an entry next to another entry that stayed
C4_Witness ==
    /\ last.op = "set"
    /\ Size(cache) = 2
    /\ steps >= 3
    /\ cache[LastKey].timestamp = IsoFormat(now)
    /\ now > StartTime

\* two readable images with the same first MiB
SamePrefix(i1, i2) ==
    i1.readable /\ i2.readable /\ FirstMiB(i1) = FirstMiB(i2)

\* C5 as stated: for readable files a get hits only an entry that was set
\* for an image with the same content (images with different content never
\* share a key).
C5_DifferentContentDistinctKeys ==
    (/\ last.op = "get"
     /\ fs[last.path].readable
     /\ last.ret.kind = "tuple"
     /\ LastKey \notin preloaded)
        => \E id \in DOMAIN stored :
               id.query = last.query /\ stored[id].image = fs[last.path]

\* C5, amended: for readable files the entry is addressed by the first MiB
\* of the content and never by the path.  A get hits only an entry set for
\* an image with the same first MiB; it hits every such entry whatever the
\* two paths are; a set through a second path to an image with the same
\* first MiB overwrites that one entry (path, verdict, timestamp) and adds
\* none; images that differ in the first MiB have different keys.
C5_ContentIdentity ==
    /\ (/\ last.op = "get"
        /\ fs[last.path].readable
        /\ last.ret.kind = "tuple"
        /\ LastKey \notin preloaded)
           => \E id \in DOMAIN stored :
                  /\ id.query = last.query
                  /\ SamePrefix(stored[id].image, fs[last.path])
    /\ (last.op = "get" /\ fs[last.path].readable)
           => \A id \in DOMAIN stored :
                  (/\ id.query = last.query
                   /\ SamePrefix(stored[id].image, fs[last.path]))
                      => last.ret = StoredVerdict(id)
    /\ (last.op = "set" /\ fs[last.path].readable)
           => \A p \in Paths :
                  LET key == GetCacheKey(p, fs[p], last.query) IN
                  /\ SamePrefix(fs[p], fs[last.path])
                         => /\ key \in DOMAIN cache
                            /\ cache[key].image_path = last.path
                            /\ cache[key].is_match = last.is_match
                            /\ cache[key].explanation = last.explanation
                            /\ cache[key].timestamp = IsoFormat(now)
                  /\ (fs[p].readable /\ ~SamePrefix(fs[p], fs[last.path]))
                         => key # LastKey
    /\ Cardinality(DOMAIN cache \ preloaded) <= Size(stored)

\* a get through one path hits the entry that was set through the other
\* path for the same content
C5_Witness ==
    /\ last.op = "get"
    /\ last.ret.kind = "tuple"
    /\ LastIdentity \in DOMAIN stored
    /\ stored[LastIdentity].path # last.path
    /\ stored[LastIdentity].image = fs[last.path]
    /\ fs[last.path].readable

\* C6: two readable images with the same first MiB and different bytes
\* after it are one entry for every query: a get for one returns what was
\* set for the other, and a set for the second overwrites the first.
C6_PrefixCollision ==
    /\ (/\ last.op = "get"
        /\ fs[last.path].readable
        /\ LastIdentity \in DOMAIN stored
        /\ stored[LastIdentity].image # fs[last.path])
           => last.ret = StoredVerdict(LastIdentity)
    /\ (last.op = "set" /\ fs[last.path].readable)
           => \A p \in Paths :
                  (/\ SamePrefix(fs[p], fs[last.path])
                   /\ fs[p] # fs[last.path])
                      => LET key == GetCacheKey(p, fs[p], last.query) IN
                         /\ key = LastKey
                         /\ key \in DOMAIN cache
                         /\ cache[key].is_match = last.is_match
                         /\ cache[key].explanation = last.explanation
                         /\ cache[key].image_path = last.path

\* a get for an image returns the verdict set for another image that
\* differs from it after the first MiB only
C6_Witness ==
    /\ last.op = "get"
    /\ fs[last.path].readable
    /\ LastIdentity \in DOMAIN stored
    /\ stored[LastIdentity].image # fs[last.path]
    /\ last.ret = StoredVerdict(LastIdentity)

\* C7: the entries of two queries on one image are independent: a set or a
\* clear_by_query for one query leaves every entry that was set for another
\* query in the mapping, with its verdict.
C7_QueriesIndependent ==
    [][last'.op \in {"set", "clear_by_query"} =>
        \A id \in DOMAIN stored :
            id.query # last'.query =>
                LET key == GetCacheKey(stored[id].path, stored[id].image,
                                       id.query)
                IN
                /\ key \in DOMAIN cache'
                /\ cache'[key].is_match = stored[id].is_match
                /\ cache'[key].explanation = stored[id].explanation
                /\ key \in DOMAIN cache
                /\ cache'[key] = cache[key]
                /\ id \in DOMAIN stored']_vars

\* clear_by_query has removed the entry of one query and the entry set for
\* the other query on the same image is still there
C7_Witness ==
    /\ last.op = "clear_by_query"
    /\ last.ret = Count(1)
    /\ Size(cache) = 1
    /\ \E id \in DOMAIN stored :
           /\ id.query # last.query
           /\ stored[id].image.readable
           /\ GetCacheKey(stored[id].path, stored[id].image, id.query)
                  \in DOMAIN cache

\* the key has a ":" followed by exactly the fingerprint h
HasQueryFingerprint(key, h) ==
    \E i \in 1..Len(key) : key[i] = ":" /\ SubSeq(key, i + 1, Len(key)) = h

\* what a call that saves does to the persisted file
WriteTriggered ==
    CASE fault = "written" ->
            /\ disk'.kind = "json"
            /\ LoadCache(disk') = cache'
            /\ disk'.data[MetadataField].total_entries = Size(cache')
      [] fault = "open_failed" -> disk' = disk
      [] fault = "partial_write" -> disk' = Corrupt

\* C8: clear_by_query(q) removes the entries whose key carries the
\* fingerprint of q, for every image, and no other entry; it writes the
\* persisted file; it returns the number of entries removed; with no such
\* entry it returns 0 and the mapping is as before.
C8_ClearByQuery ==
    [][last'.op = "clear_by_query" =>
        LET h == GetQueryHash(last'.query)
            gone == {k \in DOMAIN cache : HasQueryFingerprint(k, h)}
        IN
        /\ DOMAIN cache' = DOMAIN cache \ gone
        /\ \A k \in DOMAIN cache' : cache'[k] = cache[k]
        /\ last'.ret = Count(Cardinality(gone))
        /\ last'.ret.value = Size(cache) - Size(cache')
        /\ gone = {} => (cache' = cache /\ last'.ret = Count(0))
        /\ WriteTriggered]_vars

\* clear_by_query has removed the entries of two images, kept an entry of
\* the other query and written the file
C8_Witness ==
    /\ last.op = "clear_by_query"
    /\ last.ret = Count(2)
    /\ Size(cache) = 1
    /\ disk.kind = "json"
    /\ LoadCache(disk) = cache

\* C9: clear_old_entries(days) removes exactly the entries whose timestamp
\* is at or before now - days, writes the persisted file even when nothing
\* is removed, and returns the number of entries removed.
C9_ClearOlderThan ==
    [][last'.op = "clear_old_entries" =>
        LET cutoff == now - last'.days
            expired == {k \in DOMAIN cache :
                           /\ Parses(cache[k])
                           /\ FromIsoFormat(cache[k].timestamp) <= cutoff}
        IN
        /\ last'.ret = Count(Cardinality(expired))
        /\ \A k \in expired : k \notin DOMAIN cache'
        /\ \A k \in DOMAIN cache \ expired :
               Parses(cache[k]) => (k \in DOMAIN cache' /\ cache'[k] = cache[k])
        /\ WriteTriggered]_vars

\* C10: clear_old_entries(0) leaves the mapping empty, and
\* clear_old_entries(N) with N larger than the age of every entry removes
\* none and returns 0.
C10_ClearZeroAndLarge ==
    [][last'.op = "clear_old_entries" =>
        /\ last'.days = 0 => cache' = EmptyDict
        /\ (\A k \in DOMAIN cache :
                Parses(cache[k]) =>
                    now - FromIsoFormat(cache[k].timestamp) < last'.days)
               => (cache' = cache /\ last'.ret = Count(0))]_vars

\* C11: with an entry whose timestamp is unparsable or missing in the
\* mapping, clear_old_entries still returns a count, removes the well-formed
\* entries at or before the cutoff, keeps the well-formed entries after it
\* and writes the persisted file.
C11_MalformedDoesNotAbort ==
    [][(/\ last'.op = "clear_old_entries"
        /\ now - last'.days >= DatetimeMin
        /\ \E k \in DOMAIN cache : ~Parses(cache[k])) =>
        LET cutoff == now - last'.days
            wellFormed == {k \in DOMAIN cache : Parses(cache[k])}
            expired == {k \in wellFormed :
                           FromIsoFormat(cache[k].timestamp) <= cutoff}
        IN
        /\ last'.ret.kind = "int"
        /\ \A k \in expired : k \notin DOMAIN cache'
        /\ \A k \in wellFormed \ expired :
               k \in DOMAIN cache' /\ cache'[k] = cache[k]
        /\ WriteTriggered]_vars

\* C12: clear_all leaves the mapping empty, writes the persisted file,
\* returns the number of entries there were before the call and leaves the
\* counters as they were; on the emptied mapping every get is a miss, and
\* the mapping stays empty until a set.
C12_ClearAll ==
    [][/\ last'.op = "clear_all" =>
            /\ cache' = EmptyDict
            /\ last'.ret = Count(Size(cache))
            /\ stats' = stats
            /\ WriteTriggered
       /\ (cache = EmptyDict /\ last'.op = "get") =>
            /\ last'.ret = None
            /\ stats'.misses = stats.misses + 1
            /\ stats'.hits = stats.hits
       /\ (cache = EmptyDict /\ last'.op \notin {"set", "init"}) =>
            cache' = EmptyDict]_vars

\* clear_all has removed two entries after a hit was counted, and the file
\* holds the empty mapping
C12_Witness ==
    /\ last.op = "clear_all"
    /\ last.ret = Count(2)
    /\ stats.hits = 1
    /\ cache = EmptyDict
    /\ disk.kind = "json"
    /\ LoadCache(disk) = EmptyDict

\* the persisted file is absent, unreadable or not JSON (cut short)
NoUsableFile == disk.kind \in {"absent", "unreadable", "corrupt"}

\* C13: an instance constructed while the persisted file is absent,
\* unreadable, unparsable or cut short holds the empty mapping and zero
\* counters, and the call after the construction works as on any empty
\* cache: a get is a miss, a set stores its one entry, a save writes the
\* file.
C13_ConstructionNeverFails ==
    /\ []((last.op = "init" /\ NoUsableFile) =>
              /\ cache = EmptyDict
              /\ stats = ZeroStats)
    /\ [][(last.op = "init" /\ NoUsableFile) =>
              /\ last'.op = "get" =>
                    /\ last'.ret = None
                    /\ stats' = [ZeroStats EXCEPT !.misses = 1]
                    /\ cache' = EmptyDict
              /\ last'.op = "set" =>
                    /\ DOMAIN cache' =
                           {GetCacheKey(last'.path, fs[last'.path], last'.query)}
                    /\ last'.ret = None
                    /\ stats' = ZeroStats
              /\ last'.op = "save" =>
                    /\ last'.ret = None
                    /\ cache' = EmptyDict
                    /\ WriteTriggered]_vars

\* an instance has been constructed from the file that an earlier save left
\* cut short
C13_Witness ==
    /\ last.op = "init"
    /\ disk = Corrupt
    /\ fault = "partial_write"
    /\ steps = 3
    /\ cache = EmptyDict
    /\ stats = ZeroStats

\* the two files a mapping can be stored in: the current form with the
\* "cache" wrapper and the metadata, and the old form, the mapping itself
WrappedFile(mapping) == JsonDict(JsonDump(SavedData(mapping)))

BareFile(mapping) == JsonDict(DumpMapping(mapping))

\* C14: for every mapping M the instance can hold, loading the wrapped file
\* of M and loading the bare file of M give the same mapping, M itself; an
\* instance constructed from a file in either form holds the mapping the
\* other form gives, so every get on it returns the same.
C14_WrappedAndLegacyLoadAlike ==
    /\ LoadCache(WrappedFile(cache)) = LoadCache(BareFile(cache))
    /\ LoadCache(BareFile(cache)) = cache
    /\ (last.op = "init" /\ disk.kind = "json") =>
           /\ cache = LoadCache(WrappedFile(LoadCache(disk)))
           /\ cache = LoadCache(BareFile(LoadCache(disk)))

\* an instance has been constructed from a wrapped file that holds an entry
C14_Witness ==
    /\ last.op = "init"
    /\ disk.kind = "json"
    /\ CacheField \in DOMAIN disk.data
    /\ Size(cache) >= 1
    /\ steps >= 3

\* C15: a write of the persisted file that fails is not seen by the caller:
\* save, clear_all, clear_by_query and clear_old_entries return as they do
\* when the write succeeds, the mapping and the counters after the call are
\* what the call makes of them whatever happens to the write, and get and
\* set go on working.  (A clear_old_entries that raises before it reaches
\* the write has not had a write fail.)
C15_WriteFailureSwallowed ==
    [][fault # "written" =>
        /\ last'.op = "save" =>
              /\ last'.ret = None
              /\ cache' = cache
              /\ stats' = stats
              /\ WriteTriggered
        /\ last'.op = "clear_all" =>
              /\ last'.ret = Count(Size(cache))
              /\ cache' = EmptyDict
              /\ stats' = stats
              /\ WriteTriggered
        /\ last'.op = "clear_by_query" =>
              LET h == GetQueryHash(last'.query)
                  kept == {k \in DOMAIN cache : ~HasQueryFingerprint(k, h)}
              IN
              /\ last'.ret = Count(Size(cache) - Cardinality(kept))
              /\ cache' = Restrict(cache, kept)
              /\ stats' = stats
              /\ WriteTriggered
        /\ (last'.op = "clear_old_entries" /\ last'.saved) =>
              LET kept == {k \in DOMAIN cache :
                              FromIsoFormat(cache[k].timestamp)
                                  > now - last'.days}
              IN
              /\ last'.ret = Count(Size(cache) - Cardinality(kept))
              /\ cache' = Restrict(cache, kept)
              /\ stats' = stats
              /\ WriteTriggered
        /\ last'.op = "get" =>
              LET key == GetCacheKey(last'.path, fs[last'.path], last'.query)
              IN
              /\ cache' = cache
              /\ last'.ret = IF key \in DOMAIN cache
                             THEN Verdict(cache[key]) ELSE None
        /\ last'.op = "set" =>
              LET key == GetCacheKey(last'.path, fs[last'.path], last'.query)
              IN
              /\ last'.ret = None
              /\ key \in DOMAIN cache'
              /\ cache'[key].is_match = last'.is_match
              /\ cache'[key].explanation = last'.explanation]_vars

\* clear_by_query has removed an entry and returned 1 while the write
\* failed: the file still holds the entry
C15_Witness ==
    /\ last.op = "clear_by_query"
    /\ last.ret = Count(1)
    /\ fault = "open_failed"
    /\ disk.kind = "json"
    /\ LoadCache(disk) # cache

\* the calls that write the persisted file
Persisting == {"save", "clear_all", "clear_by_query", "clear_old_entries"}

\* C16: after a save, clear_all, clear_by_query or clear_old_entries that
\* returned and whose write succeeded, the mapping in the persisted file is
\* the in-memory mapping, with the entries that were set and not saved
\* before, and a new instance constructed from the file would hold exactly
\* that mapping: the same keys with the same is_match, explanation,
\* image_path and timestamp.
C16_PersistedEqualsMemory ==
    [][(/\ last'.op \in Persisting
        /\ last'.ret.kind # "raise"
        /\ fault = "written") =>
        /\ disk'.kind = "json"
        /\ CacheField \in DOMAIN disk'.data
        /\ DOMAIN disk'.data[CacheField] = DOMAIN cache'
        /\ LoadCache(disk') = cache'
        /\ \A k \in DOMAIN cache' :
               /\ LoadCache(disk')[k].is_match = cache'[k].is_match
               /\ LoadCache(disk')[k].explanation = cache'[k].explanation
               /\ LoadCache(disk')[k].image_path = cache'[k].image_path
               /\ LoadCache(disk')[k].timestamp = cache'[k].timestamp
        /\ \A id \in DOMAIN stored' :
               GetCacheKey(stored'[id].path, stored'[id].image, id.query)
                   \in DOMAIN LoadCache(disk')]_vars

\* a save has written a loaded entry together with an entry that was set
\* after the load
C16_Witness ==
    /\ last.op = "save"
    /\ fault = "written"
    /\ Size(cache) = 2
    /\ Size(stored) = 1
    /\ preloaded # {}
    /\ LoadCache(disk) = cache

\* C17: hits + misses is the number of get calls made on the instance since
\* its construction: a construction leaves both counters at 0 whatever the
\* metadata of the file holds, a get adds one to exactly one of them, no
\* other call changes them, and neither ever decreases on an instance.
C17_CountersCountGets ==
    /\ [](/\ stats.hits + stats.misses = lookups
          /\ last.op = "init" => (stats.hits = 0 /\ stats.misses = 0)
          /\ last.op = "get_stats" =>
                last.ret.cache_hits + last.ret.cache_misses = lookups)
    /\ [][/\ last'.op = "get" =>
                stats'.hits + stats'.misses = stats.hits + stats.misses + 1
          /\ last'.op \notin {"get", "init"} => stats' = stats
          /\ last'.op # "init" =>
                (stats'.hits >= stats.hits /\ stats'.misses >= stats.misses)
         ]_vars

\* an instance has been constructed from a file whose metadata holds one
\* hit
C17_Witness ==
    /\ last.op = "init"
    /\ disk.kind = "json"
    /\ MetadataField \in DOMAIN disk.data
    /\ disk.data[MetadataField].stats.hits = 1
    /\ stats.hits = 0
    /\ stats.misses = 0
    /\ lookups = 0

\* t tenths of a percent is a tenth nearest to hits / total
NearestTenth(t, hits, total) ==
    LET d == t * total - 1000 * hits IN
    2 * (IF d < 0 THEN -d ELSE d) <= total

\* C18: get_stats reports the hit rate hits / (hits + misses) as a
\* percentage with one decimal, between 0% and 100%: "0.0%" before any get,
\* "75.0%" after 3 hits and 1 miss; it reports the number of entries of the
\* mapping and the two counters; it changes neither the mapping, nor the
\* counters, nor the file.
C18_HitRate ==
    /\ [](last.op = "get_stats" =>
            LET total == stats.hits + stats.misses
                floor == (1000 * stats.hits) \div (IF total = 0 THEN 1 ELSE total)
            IN
            /\ last.ret.kind = "dict"
            /\ total = 0 => last.ret.hit_rate = <<"0", ".", "0", "%">>
            /\ (stats.hits = 3 /\ stats.misses = 1) =>
                   last.ret.hit_rate = <<"7", "5", ".", "0", "%">>
            /\ total > 0 =>
                   \E t \in {floor, floor + 1} :
                       /\ t \in 0..1000
                       /\ NearestTenth(t, stats.hits, total)
                       /\ last.ret.hit_rate =
                              Digits(t \div 10) \o <<".", DecChars[(t % 10) + 1], "%">>
            /\ last.ret.total_cached_entries = Size(cache)
            /\ last.ret.cache_hits = stats.hits
            /\ last.ret.cache_misses = stats.misses)
    /\ [][last'.op = "get_stats" =>
            /\ cache' = cache
            /\ stats' = stats
            /\ disk' = disk]_vars

\* get_stats has reported "75.0%" after 3 hits and 1 miss
C18_Witness ==
    /\ last.op = "get_stats"
    /\ stats.hits = 3
    /\ stats.misses = 1
    /\ last.ret.hit_rate = <<"7", "5", ".", "0", "%">>
    /\ last.ret.total_cached_entries >= 1

SetUnderOtherPath(id) ==
    /\ id.query = last.query
    /\ ~id.image.readable
    /\ id.image.path # last.path

\* C20: with an image file that cannot be read, get and set return as they
\* do for a readable file, and the entry is addressed by the digest of the
\* path: a get with the path and query of an earlier set is a hit with the
\* stored verdict, and a get with the same query and another path of the
\* unreadable image is a miss, whichever entries were set for other paths.
C20_UnreadableFallsBackToPath ==
    /\ (last.op \in {"get", "set"} /\ ~fs[last.path].readable) =>
           /\ last.ret.kind \in {"None", "tuple"}
           /\ LastKey = Md5Hex(Encode(last.path)) \o <<":">>
                            \o GetQueryHash(last.query)
    /\ (last.op = "set" /\ ~fs[last.path].readable) =>
           /\ last.ret = None
           /\ LastKey \in DOMAIN cache
           /\ Verdict(cache[LastKey]) =
                  [kind |-> "tuple", is_match |-> last.is_match,
                   explanation |-> last.explanation]
    /\ (last.op = "get" /\ ~fs[last.path].readable) =>
           IF LastIdentity \in DOMAIN stored
           THEN last.ret = StoredVerdict(LastIdentity)
           ELSE LastKey \notin preloaded => last.ret = None

\* after a set and a hit through one path of an unreadable image, a get
\* with the same query through the other path has missed
C20_Witness ==
    /\ last.op = "get"
    /\ ~fs[last.path].readable
    /\ last.ret = None
    /\ stats.hits = 1
    /\ stats.misses = 1
    /\ \E id \in DOMAIN stored : SetUnderOtherPath(id)

\* the keys of the entries the running instance has set
StoredKeys ==
    {GetCacheKey(stored[id].path, stored[id].image, id.query) :
        id \in DOMAIN stored}

\* C21: with two processes on one file the last writer wins: after a save
\* of one process whose write succeeds, the file holds exactly the mapping
\* of that process, so an entry the other process has set and saved, and
\* that the saving process has neither loaded nor set, is not in the file
\* any more, and an instance constructed afterwards holds what the file
\* holds and so does not hold that entry.
C21_LastWriterWins ==
    [][/\ (last'.op = "save" /\ fault = "written") =>
            /\ LoadCache(disk') = cache'
            /\ \A k \in written[OtherProcess(running)] :
                   (k \notin preloaded /\ k \notin StoredKeys)
                       => k \notin DOMAIN LoadCache(disk')
       /\ last'.op = "init" =>
            /\ cache' = LoadCache(disk)
            /\ \A k \in written["A"] \cup written["B"] :
                   k \notin DOMAIN LoadCache(disk) => k \notin DOMAIN cache']_vars

\* process B has saved after process A saved an entry that B never held:
\* the entry is in A's mapping and not in the file
C21_Witness ==
    /\ last.op = "save"
    /\ running = "B"
    /\ fault = "written"
    /\ \E k \in written["A"] :
           /\ k \in DOMAIN peer.cache
           /\ k \notin DOMAIN cache
           /\ k \notin DOMAIN LoadCache(disk)

\* C22: whatever the persisted file holds, the construction succeeds and
\* no later get, set, clear_by_query, clear_all, get_queries_analyzed or
\* save raises.
C22_NoFileContentFails ==
    last.op \in {"get", "set", "clear_by_query", "clear_all",
                 "get_queries_analyzed", "save"}
        => last.ret.kind # "raise"

\* an entry of the mapping whose timestamp parses and is not after the
\* cutoff of a sweep over the given number of days
Expired(mapping, days) ==
    {key \in DOMAIN mapping :
        /\ Parses(mapping[key])
        /\ FromIsoFormat(mapping[key].timestamp) <= now - days}

\* a sweep that failed on the timestamp of an entry
TimestampFailed(call) ==
    /\ call.op = "clear_old_entries"
    /\ call.ret.kind = "raise"
    /\ call.ret.exc \in {"ValueError", "KeyError"}

\* C23: when the evaluation of an entry's timestamp fails during
\* clear_old_entries, the in-memory mapping is what it was before the call
\* and the file is not written: no partial removal is observable.
C23_FailedSweepChangesNothing ==
    [][TimestampFailed(last') => cache' = cache /\ disk' = disk]_vars

C23_Witness ==
    /\ TimestampFailed(last)
    /\ Expired(cache, last.days) # {}
    /\ Size(cache) >= 2

\* the key of the entry a set on the identity id has stored
KeyOf(id) == GetCacheKey(stored[id].path, stored[id].image, id.query)

\* the time of the most recent set is the timestamp of every entry set by
\* this instance
AgeIsTimeOfLastSet ==
    \A id \in DOMAIN stored :
        /\ KeyOf(id) \in DOMAIN cache
        /\ cache[KeyOf(id)].timestamp = IsoFormat(stored[id].at)

\* a get leaves every entry, and so every timestamp, as it was
GetKeepsAges == [][last'.op = "get" => cache' = cache]_vars

\* a sweep removes the entries set at or before its cutoff
SweepRemovesAged ==
    [][last'.op = "clear_old_entries" =>
          \A id \in DOMAIN stored :
              stored[id].at <= now - last'.days
                  => KeyOf(id) \notin DOMAIN cache']_vars

\* C24: a hit never refreshes the age of an entry: get leaves the timestamp
\* unchanged, the timestamp of an entry is the time of the most recent set
\* on its key, and an entry that is read but not set again is removed by
\* clear_old_entries(days) once its timestamp is at or before now - days.
C24_HitsDoNotRefreshAge ==
    /\ []AgeIsTimeOfLastSet
    /\ GetKeepsAges
    /\ SweepRemovesAged

\* C25: once a call of expand_query_with_cache for a query has returned and
\* its write of the cache file has succeeded, every later call with a query
\* of the same lower-cased, stripped form returns the string of that first
\* call and does not invoke the model, also when that string is the raw
\* query returned as fallback.
C25_ExpandedOnce ==
    [][(/\ last'.op = "expand_query_with_cache"
        /\ QueryKey(last'.query) \in DOMAIN settled)
          => /\ last'.ret = settled[QueryKey(last'.query)]
             /\ ~last'.invoked]_vars

\* the words of the chunks, in the order of the chunks
RECURSIVE WordsOf(_)
WordsOf(yielded) ==
    IF yielded = <<>> THEN <<>>
    ELSE StrSplit(Head(yielded)) \o WordsOf(Tail(yielded))

\* the chunks of an exhausted generator: the groups of words, the note when
\* a schedule was given, the marker
InOrder ==
    LET notes == IF Truthy(schedule) THEN 1 ELSE 0
        groups == Len(chunks) - notes - 1
    IN
    /\ groups >= 0
    /\ \A j \in 1..groups : Len(StrSplit(chunks[j])) \in 1..ChunkSize
    /\ WordsOf(SubSeq(chunks, 1, groups)) = tokens
    /\ notes = 1 => chunks[groups + 1] = ScheduleNote(schedule)
    /\ chunks[Len(chunks)] = EndMarker
    /\ \A j \in 1..(Len(chunks) - 1) : chunks[j] # EndMarker

\* C26: stream_generate_post always terminates, and what it has emitted is
\* the words of the generated post in their order in groups of at most 6,
\* none dropped or repeated, then the scheduling note when a schedule was
\* given (the parsed time, or the could-not-parse note), then the end
\* marker, once and last.
C26_StreamEndsInOrder ==
    /\ [](pc \in {"done", "raised"} => pc = "done" /\ InOrder)
    /\ <>(pc = "done")

\* the same for a generator that has not raised
C26_InOrderUnlessRaised ==
    /\ [](pc = "done" => InOrder)
    /\ <>(pc \in {"done", "raised"})

====
